---- MODULE Spec2Model ----
(***************************************************************************)
(* DatasetFormatter of hf_for_legal (src/src/hf_for_legal/datasets.py): a  *)
(* wrapper holding one datasets.Dataset reference (self.dataset) and       *)
(* offering row/column transformations that are delegated to the dataset's *)
(* map / filter / rename_column / remove_columns.                          *)
(*                                                                         *)
(* Python values are records [t, s, n, d]: t the type name, s the          *)
(* characters of a str (a sequence of one-character strings), n the value  *)
(* of an int (or a numerator), d a denominator.  An exception raised while *)
(* a value is computed is the value Raise(kind).                           *)
(***************************************************************************)
EXTENDS Integers, Sequences, FiniteSets, TLC

\* Bounds of the model.
MaxRows == 2

\* len(str(uuid.uuid4())).
UuidStrLen == 36

---------------------------------------------------------------------------
\* Python values.

StrV(s) == [t |-> "str", s |-> s, n |-> 0, d |-> 1]

IntV(k) == [t |-> "int", s |-> <<>>, n |-> k, d |-> 1]

NoneV == [t |-> "NoneType", s |-> <<>>, n |-> 0, d |-> 1]

FloatV(num, den) == [t |-> "float", s |-> <<>>, n |-> num, d |-> den]

\* The square root of num/den (numpy's std), kept symbolic.
SqrtV(num, den) == [t |-> "float", s |-> <<"sqrt">>, n |-> num, d |-> den]

Raise(kind) == [t |-> "raise", s |-> <<kind>>, n |-> 0, d |-> 1]

IsRaise(v) == v.t = "raise"

\* An argument that is not hashable (a list): it cannot be a dict key.
Unhashable == "[unhashable]"

IsHashable(name) == name # Unhashable

---------------------------------------------------------------------------
\* str(), str.encode(), hashlib.sha256(...).hexdigest()

DigitChar(k) ==
    CASE k = 0 -> "0" [] k = 1 -> "1" [] k = 2 -> "2" [] k = 3 -> "3"
      [] k = 4 -> "4" [] k = 5 -> "5" [] k = 6 -> "6" [] k = 7 -> "7"
      [] k = 8 -> "8" [] OTHER -> "9"

RECURSIVE IntStr(_)
IntStr(k) ==
    IF k < 0 THEN <<"-">> \o IntStr(0 - k)
    ELSE IF k < 10 THEN <<DigitChar(k)>>
    ELSE IntStr(k \div 10) \o <<DigitChar(k % 10)>>

\* str(v): the string form of a value, as its characters.
PyStr(v) ==
    CASE v.t = "str" -> v.s
      [] v.t = "int" -> IntStr(v.n)
      [] OTHER -> <<"N", "o", "n", "e">>

\* One character's UTF-8 byte, written in hex.
Utf8Byte(c) ==
    CASE c = "A" -> "41" [] c = "a" -> "61" [] c = " " -> "20"
      [] c = "N" -> "4e" [] c = "o" -> "6f" [] c = "n" -> "6e" [] c = "e" -> "65"
      [] c = "-" -> "2d" [] c = "0" -> "30" [] c = "1" -> "31" [] c = "2" -> "32"
      [] c = "3" -> "33" [] c = "4" -> "34" [] c = "5" -> "35" [] c = "6" -> "36"
      [] c = "7" -> "37" [] c = "8" -> "38" [] c = "9" -> "39"
      [] OTHER -> "u:" \o c

\* s.encode(): the UTF-8 bytes of a string.
Utf8Encode(s) == [i \in 1..Len(s) |-> Utf8Byte(s[i])]

\* hashlib.sha256(bytes).hexdigest(): SHA-256 is not computed; its digest is
\* the uninterpreted, injective term sha256(bytes), a string.
Sha256Hex(bytes) == <<"sha256">> \o bytes

generate_hash_nostr(text) ==
    IF text.t = "str" THEN StrV(Sha256Hex(Utf8Encode(text.s)))
    ELSE Raise("AttributeError")

\* hashlib.sha256(str(text).encode()).hexdigest()
generate_hash(text) == StrV(Sha256Hex(Utf8Encode(PyStr(text))))

---------------------------------------------------------------------------
\* Datasets.  A datasets.Dataset is [kind |-> "Dataset", cols, rows]: cols its
\* column_names, rows the sequence of its rows, each a function from cols.

NoObject == [kind |-> "NoneType", cols |-> {}, rows |-> <<>>]

Table(cols, rows) == [kind |-> "Dataset", cols |-> cols, rows |-> rows]

\* The columnar-dataset contract: every row has exactly the columns.
IsValidDataset(v) ==
    /\ v.kind = "Dataset"
    /\ \A i \in 1..Len(v.rows) : DOMAIN v.rows[i] = v.cols

\* {**row, name: value}
RowUpdate(row, name, value) ==
    [k \in (DOMAIN row) \cup {name} |-> IF k = name THEN value ELSE row[k]]

\* What the function given to Dataset.map yields at a row whose computed
\* value is `value`: the exception of the value's computation, else TypeError
\* when the key of the returned dict is unhashable, else the value.
RowResult(name, value) ==
    IF IsRaise(value) THEN value
    ELSE IF ~IsHashable(name) THEN Raise("TypeError")
    ELSE value

\* The exception Dataset.map propagates, vals[i] being the value computed at
\* row i: that of the first row whose function raises ("none" when none does).
MapError(D, name, vals) ==
    LET bad == {i \in 1..Len(D.rows) : IsRaise(RowResult(name, vals[i]))}
    IN  IF bad = {} THEN "none"
        ELSE LET first == CHOOSE i \in bad : \A j \in bad : i <= j
             IN  RowResult(name, vals[first]).s[1]

\* Dataset.map(lambda x: {name: f(x)}): a new dataset, every row updated.
MapRows(D, name, vals) ==
    Table(D.cols \cup {name},
          [i \in 1..Len(D.rows) |-> RowUpdate(D.rows[i], name, vals[i])])

\* The outcome of a call: the exception raised ("none" when it returns), the
\* value returned, and the Formatter's self.dataset when the call ends.
Outcome(err, ret, held) == [err |-> err, ret |-> ret, held |-> held]

ColumnError == "ValueError: column does not exist in the dataset"

\* A method under @memory(print_report=True) and @timer(print_time=True): the
\* decorators measure and print, and pass the outcome of the call through.
Instrumented(outcome) == outcome

---------------------------------------------------------------------------
\* DatasetFormatter.hash

hash_unchecked(D, column_name, hash_column_name) ==
    IF column_name \notin D.cols THEN Outcome("KeyError", NoObject, D)
    ELSE LET vals == [i \in 1..Len(D.rows) |-> generate_hash(D.rows[i][column_name])]
             e == MapError(D, hash_column_name, vals)
         IN  IF e # "none" THEN Outcome(e, NoObject, D)
             ELSE Outcome("none", MapRows(D, hash_column_name, vals), D)

hash_assigning(D, column_name, hash_column_name) ==
    IF column_name \notin D.cols THEN Outcome(ColumnError, NoObject, D)
    ELSE LET vals == [i \in 1..Len(D.rows) |-> generate_hash(D.rows[i][column_name])]
             e == MapError(D, hash_column_name, vals)
             new == MapRows(D, hash_column_name, vals)
         IN  IF e # "none" THEN Outcome(e, NoObject, D) ELSE Outcome("none", new, new)

\* The body of hash on self.dataset = D.
hash(D, column_name, hash_column_name) ==
    IF column_name \notin D.cols THEN Outcome(ColumnError, NoObject, D)
    ELSE LET vals == [i \in 1..Len(D.rows) |-> generate_hash(D.rows[i][column_name])]
             e == MapError(D, hash_column_name, vals)
         IN  IF e # "none" THEN Outcome(e, NoObject, D)
             ELSE Outcome("none", MapRows(D, hash_column_name, vals), D)

---------------------------------------------------------------------------
\* DatasetFormatter.uuid

\* str(uuid.uuid4()): 8-4-4-4-12 hexadecimal digits, the version digit 4; the
\* random digits are those of the k-th outcome of the generator.
Uuid4Str(k) ==
    StrV([i \in 1..UuidStrLen |->
            IF i \in {9, 14, 19, 24} THEN "-"
            ELSE IF i = 15 THEN "4"
            ELSE DigitChar(k)])

uuid_once(D, uuid_column_name, draws) ==
    LET vals == [i \in 1..Len(D.rows) |-> Uuid4Str(draws[1])]
        e == MapError(D, uuid_column_name, vals)
    IN  IF e # "none" THEN Outcome(e, NoObject, D)
        ELSE Outcome("none", MapRows(D, uuid_column_name, vals), D)

\* The body of uuid on self.dataset = D; draws[i] is the outcome of uuid4 at
\* row i.
uuid(D, uuid_column_name, draws) ==
    LET vals == [i \in 1..Len(D.rows) |-> Uuid4Str(draws[i])]
        e == MapError(D, uuid_column_name, vals)
    IN  IF e # "none" THEN Outcome(e, NoObject, D)
        ELSE Outcome("none", MapRows(D, uuid_column_name, vals), D)

---------------------------------------------------------------------------
\* DatasetFormatter.normalize_text

IsSpace(c) == c = " "

\* str.lower(), one character.
LowerChar(c) == CASE c = "A" -> "a" [] c = "N" -> "n" [] OTHER -> c

Lower(s) == [i \in 1..Len(s) |-> LowerChar(s[i])]

RECURSIVE LStrip(_)
LStrip(s) == IF s # <<>> /\ IsSpace(Head(s)) THEN LStrip(Tail(s)) ELSE s

RECURSIVE RStrip(_)
RStrip(s) ==
    IF s # <<>> /\ IsSpace(s[Len(s)]) THEN RStrip(SubSeq(s, 1, Len(s) - 1)) ELSE s

\* str.strip()
Strip(s) == RStrip(LStrip(s))

StripOnce(s) ==
    LET l == IF s # <<>> /\ IsSpace(Head(s)) THEN Tail(s) ELSE s
    IN  IF l # <<>> /\ IsSpace(l[Len(l)]) THEN SubSeq(l, 1, Len(l) - 1) ELSE l

normalize_strip_once(text) ==
    IF text.t = "str" THEN StrV(StripOnce(Lower(text.s))) ELSE Raise("AttributeError")

\* text.lower().strip(); a value with no lower() raises AttributeError.
normalize(text) ==
    IF text.t = "str" THEN StrV(Strip(Lower(text.s))) ELSE Raise("AttributeError")

\* An omitted normalized_column_name (None).
NoName == "[None]"

\* The truth value of a column-name argument.
Truthy(name) == name \notin {NoName, ""}

\* The body of normalize_text on self.dataset = D.
normalize_text(D, column_name, normalized_column_name) ==
    IF column_name \notin D.cols THEN Outcome(ColumnError, NoObject, D)
    ELSE LET new_column_name == IF Truthy(normalized_column_name)
                                THEN normalized_column_name ELSE column_name
             vals == [i \in 1..Len(D.rows) |-> normalize(D.rows[i][column_name])]
             e == MapError(D, new_column_name, vals)
         IN  IF e # "none" THEN Outcome(e, NoObject, D)
             ELSE Outcome("none", MapRows(D, new_column_name, vals), D)

---------------------------------------------------------------------------
\* DatasetFormatter.filter_rows

BoolV(b) == [t |-> "bool", s |-> <<>>, n |-> IF b THEN 1 ELSE 0, d |-> 1]

IsTrue(v) == v.t = "bool" /\ v.n = 1

\* The conditions callers pass, by their source text; a row without the
\* column the condition reads raises KeyError.
Condition(condition, row) ==
    CASE condition = "x['document'] == 'a'" ->
           IF "document" \notin DOMAIN row THEN Raise("KeyError")
           ELSE BoolV(row["document"] = StrV(<<"a">>))
      [] condition = "x['x'] is not None" ->
           IF "x" \notin DOMAIN row THEN Raise("KeyError")
           ELSE BoolV(row["x"] # NoneV)
      [] OTHER -> BoolV(TRUE)

RECURSIVE KeepRowsReversed(_, _)
KeepRowsReversed(rows, condition) ==
    IF rows = <<>> THEN <<>>
    ELSE IF IsTrue(Condition(condition, Head(rows)))
         THEN KeepRowsReversed(Tail(rows), condition) \o <<Head(rows)>>
         ELSE KeepRowsReversed(Tail(rows), condition)

\* Dataset.filter keeps, in order, the rows at which the condition is true.
RECURSIVE KeepRows(_, _)
KeepRows(rows, condition) ==
    IF rows = <<>> THEN <<>>
    ELSE IF IsTrue(Condition(condition, Head(rows)))
         THEN <<Head(rows)>> \o KeepRows(Tail(rows), condition)
         ELSE KeepRows(Tail(rows), condition)

\* The body of filter_rows on self.dataset = D.
filter_rows(D, condition) ==
    LET bad == {i \in 1..Len(D.rows) : IsRaise(Condition(condition, D.rows[i]))}
    IN  IF bad # {} THEN Outcome("KeyError", NoObject, D)
        ELSE Outcome("none", Table(D.cols, KeepRows(D.rows, condition)), D)

---------------------------------------------------------------------------
\* DatasetFormatter.rename_column, drop_column, add_constant_column

\* Dataset.rename_column refuses a new name the dataset already has.
RenameError == "ValueError: new column name is already in the dataset"

RowCopy(row, old, new) ==
    [k \in (DOMAIN row) \cup {new} |-> IF k = new THEN row[old] ELSE row[k]]

\* A row with column old renamed to new.
RowRename(row, old, new) ==
    [k \in ((DOMAIN row) \ {old}) \cup {new} |-> IF k = new THEN row[old] ELSE row[k]]

\* The body of rename_column on self.dataset = D.
rename_column(D, old_column_name, new_column_name) ==
    IF old_column_name \notin D.cols THEN Outcome(ColumnError, NoObject, D)
    ELSE IF new_column_name \in D.cols THEN Outcome(RenameError, NoObject, D)
    ELSE IF ~IsHashable(new_column_name) THEN Outcome("TypeError", NoObject, D)
    ELSE Outcome("none",
                 Table((D.cols \ {old_column_name}) \cup {new_column_name},
                       [i \in 1..Len(D.rows) |->
                          RowRename(D.rows[i], old_column_name, new_column_name)]),
                 D)

\* A row without the named columns.
RowRemove(row, names) == [k \in (DOMAIN row) \ names |-> row[k]]

drop_column_and_rest(D, column_name) ==
    IF column_name \notin D.cols THEN Outcome(ColumnError, NoObject, D)
    ELSE Outcome("none",
                 Table({}, [i \in 1..Len(D.rows) |-> RowRemove(D.rows[i], D.cols)]),
                 D)

\* The body of drop_column on self.dataset = D.
drop_column(D, column_name) ==
    IF column_name \notin D.cols THEN Outcome(ColumnError, NoObject, D)
    ELSE Outcome("none",
                 Table(D.cols \ {column_name},
                       [i \in 1..Len(D.rows) |-> RowRemove(D.rows[i], {column_name})]),
                 D)

\* The body of add_constant_column on self.dataset = D.
add_constant_column(D, column_name, constant_value) ==
    LET vals == [i \in 1..Len(D.rows) |-> constant_value]
        e == MapError(D, column_name, vals)
    IN  IF e # "none" THEN Outcome(e, NoObject, D)
        ELSE Outcome("none", MapRows(D, column_name, vals), D)

---------------------------------------------------------------------------
\* DatasetFormatter.convert_column_type, fill_missing

IsDigit(c) == \E k \in 0..9 : DigitChar(k) = c

DigitValue(c) == CHOOSE k \in 0..9 : DigitChar(k) = c

RECURSIVE DigitsValue(_)
DigitsValue(s) ==
    IF s = <<>> THEN 0
    ELSE 10 * DigitsValue(SubSeq(s, 1, Len(s) - 1)) + DigitValue(s[Len(s)])

ConversionError == "ValueError: invalid literal for int()"

\* int(s) of a str: surrounding whitespace ignored, an optional sign, digits.
ParseInt(s) ==
    LET st == Strip(s)
        neg == st # <<>> /\ Head(st) = "-"
        digits == IF neg THEN Tail(st) ELSE st
    IN  IF digits = <<>> \/ \E i \in 1..Len(digits) : ~IsDigit(digits[i])
        THEN Raise(ConversionError)
        ELSE IntV(IF neg THEN 0 - DigitsValue(digits) ELSE DigitsValue(digits))

\* new_type(value), for the types int and str.
Convert(new_type, value) ==
    IF new_type = "int"
    THEN CASE value.t = "int" -> value
           [] value.t = "str" -> ParseInt(value.s)
           [] OTHER -> Raise("TypeError")
    ELSE StrV(PyStr(value))

\* The body of convert_column_type on self.dataset = D.
convert_column_type(D, column_name, new_type) ==
    IF column_name \notin D.cols THEN Outcome(ColumnError, NoObject, D)
    ELSE LET vals == [i \in 1..Len(D.rows) |-> Convert(new_type, D.rows[i][column_name])]
             e == MapError(D, column_name, vals)
         IN  IF e # "none" THEN Outcome(e, NoObject, D)
             ELSE Outcome("none", MapRows(D, column_name, vals), D)

fill_missing_inverted(D, column_name, fill_value) ==
    IF column_name \notin D.cols THEN Outcome(ColumnError, NoObject, D)
    ELSE LET vals == [i \in 1..Len(D.rows) |->
                        IF D.rows[i][column_name] = NoneV
                        THEN D.rows[i][column_name] ELSE fill_value]
             e == MapError(D, column_name, vals)
         IN  IF e # "none" THEN Outcome(e, NoObject, D)
             ELSE Outcome("none", MapRows(D, column_name, vals), D)

\* The body of fill_missing on self.dataset = D.
fill_missing(D, column_name, fill_value) ==
    IF column_name \notin D.cols THEN Outcome(ColumnError, NoObject, D)
    ELSE LET vals == [i \in 1..Len(D.rows) |->
                        IF D.rows[i][column_name] # NoneV
                        THEN D.rows[i][column_name] ELSE fill_value]
             e == MapError(D, column_name, vals)
         IN  IF e # "none" THEN Outcome(e, NoObject, D)
             ELSE Outcome("none", MapRows(D, column_name, vals), D)

---------------------------------------------------------------------------
\* DatasetFormatter.compute_summary

RECURSIVE SeqSum(_)
SeqSum(s) == IF s = <<>> THEN 0 ELSE Head(s) + SeqSum(Tail(s))

RECURSIVE Insert(_, _)
Insert(x, s) ==
    IF s = <<>> THEN <<x>>
    ELSE IF x <= Head(s) THEN <<x>> \o s
    ELSE <<Head(s)>> \o Insert(x, Tail(s))

RECURSIVE Sorted(_)
Sorted(s) == IF s = <<>> THEN <<>> ELSE Insert(Head(s), Sorted(Tail(s)))

\* np.mean, np.median and np.std of a sequence of integers, as fractions.
Summary(xs) ==
    LET k == Len(xs)
        total == SeqSum(xs)
        squares == SeqSum([i \in 1..k |-> xs[i] * xs[i]])
        sorted == Sorted(xs)
        median == IF k % 2 = 1 THEN FloatV(sorted[(k + 1) \div 2], 1)
                  ELSE FloatV(sorted[k \div 2] + sorted[(k \div 2) + 1], 2)
    IN  [kind |-> "dict",
         cols |-> {"mean", "median", "std"},
         rows |-> <<[key \in {"mean", "median", "std"} |->
                       CASE key = "mean" -> FloatV(total, k)
                         [] key = "median" -> median
                         [] OTHER -> SqrtV(k * squares - total * total, k * k)]>>]

\* The body of compute_summary on self.dataset = D; numpy cannot average a
\* column holding None or strings.
compute_summary(D, column_name) ==
    IF column_name \notin D.cols THEN Outcome(ColumnError, NoObject, D)
    ELSE IF \E i \in 1..Len(D.rows) : D.rows[i][column_name].t # "int"
    THEN Outcome("TypeError", NoObject, D)
    ELSE Outcome("none", Summary([i \in 1..Len(D.rows) |-> D.rows[i][column_name].n]), D)

---------------------------------------------------------------------------
\* DatasetFormatter.__call__

\* The body of __call__ on self.dataset = D: self.dataset is assigned the
\* result of hash (of the default column "document"), then that of uuid; an
\* exception leaves self.dataset as the last assignment made it.  mid is
\* self.dataset when the hash step ends.
call_uuid_first(D, hash_column_name, uuid_column_name, draws) ==
    LET u == Instrumented(uuid(D, uuid_column_name, draws))
        h == Instrumented(hash(u.ret, "document", hash_column_name))
    IN  IF u.err # "none" THEN [err |-> u.err, ret |-> NoObject, held |-> D, mid |-> D]
        ELSE IF h.err # "none"
        THEN [err |-> h.err, ret |-> NoObject, held |-> u.ret, mid |-> u.ret]
        ELSE [err |-> "none", ret |-> h.ret, held |-> h.ret, mid |-> u.ret]

call_past_failed_hash(D, hash_column_name, uuid_column_name, draws) ==
    LET h == Instrumented(hash(D, "document", hash_column_name))
        base == IF h.err # "none" THEN D ELSE h.ret
        u == Instrumented(uuid(base, uuid_column_name, draws))
    IN  IF u.err # "none"
        THEN [err |-> u.err, ret |-> NoObject, held |-> base, mid |-> base]
        ELSE [err |-> h.err, ret |-> IF h.err # "none" THEN NoObject ELSE u.ret,
              held |-> u.ret, mid |-> base]

__call__(D, hash_column_name, uuid_column_name, draws) ==
    LET h == Instrumented(hash(D, "document", hash_column_name))
        u == Instrumented(uuid(h.ret, uuid_column_name, draws))
    IN  IF h.err # "none" THEN [err |-> h.err, ret |-> NoObject, held |-> D, mid |-> D]
        ELSE IF u.err # "none"
        THEN [err |-> u.err, ret |-> NoObject, held |-> h.ret, mid |-> h.ret]
        ELSE [err |-> "none", ret |-> u.ret, held |-> u.ret, mid |-> h.ret]

---------------------------------------------------------------------------
\* DatasetFormatter.__init__

init_unchecked(value) == Outcome("none", NoObject, value)

\* The body of __init__: a value that is no datasets.Dataset is refused and
\* no Formatter comes to exist (held is NoObject).
__init__(value) ==
    IF value.kind # "Dataset" THEN Outcome("TypeError", NoObject, NoObject)
    ELSE Outcome("none", NoObject, value)

---------------------------------------------------------------------------
\* The inputs of the model.

\* The values of a text column and of a numeric column.
Words == {StrV(<<" ", " ", "A">>), StrV(<<"a">>)}

Texts == Words \cup {StrV(<<"1", " ">>)}

Numbers == {IntV(1), NoneV}

\* The rows of the initial datasets, by column set.
RowsOf(cols) ==
    CASE cols = {"document"} -> [cols -> Texts \cup {NoneV}]
      [] cols = {"x"} -> [cols -> Numbers]
      [] OTHER -> {r \in [cols -> Texts \cup Numbers] :
                     r["document"] \in Words /\ r["x"] \in Numbers}

Layouts == {{"document"}, {"x"}, {"document", "x"}}

\* The datasets a Formatter is constructed from: 1..MaxRows rows.
Datasets ==
    UNION {UNION {{Table(cols, rows) : rows \in [1..k -> RowsOf(cols)]} :
                    k \in 1..MaxRows} : cols \in Layouts}

\* Values that are no datasets.Dataset: None, and a list of dicts.
NonDatasets ==
    {NoObject,
     [kind |-> "list", cols |-> {},
      rows |-> <<[k \in {"document"} |-> StrV(<<"a">>)], [k \in {"x"} |-> IntV(1)]>>]}

SourceNames == {"document", "x", "missing"}

HashNames == {"hash", "x", Unhashable}

UuidNames == {"uuid", Unhashable}

CallHashNames == {"hash", "uuid", Unhashable}

NormalizedNames == {NoName, "normalized_text"}

NewNames == {"doc", "x"}

ConstantNames == {"new_column", Unhashable}

Constants == {StrV(<<"a">>), IntV(0)}

Conditions == {"x['document'] == 'a'", "x['x'] is not None", "True"}

Types == {"int", "str"}

\* The outcomes of uuid.uuid4() the model draws from.
UuidOutcomes == {1, 2}

---------------------------------------------------------------------------
\* The state: whether a Formatter exists, its self.dataset, and the last call
\* made (the argument given to the constructor, self.dataset before the call,
\* the call and its arguments, the exception it raised, the value it returned,
\* and self.dataset at the end of the first step of __call__).

VARIABLES constructed, dataset, given, pre, op, err, ret, mid

vars == <<constructed, dataset, given, pre, op, err, ret, mid>>

Op(name, col, tgt, val, aux, draws) ==
    [name |-> name, col |-> col, tgt |-> tgt, val |-> val, aux |-> aux, draws |-> draws]

Init ==
    /\ constructed = FALSE
    /\ dataset = NoObject
    /\ given = NoObject
    /\ pre = NoObject
    /\ op = [name |-> "-", col |-> "-", tgt |-> "-", val |-> NoneV, aux |-> "-", draws |-> <<>>]
    /\ err = "none"
    /\ ret = NoObject
    /\ mid = NoObject

NoCall == Op("-", "-", "-", NoneV, "-", <<>>)

\* No call is waiting for its caller to take its result.
Idle == op = NoCall

\* DatasetFormatter(value)
Construct ==
    /\ Idle
    /\ ~constructed
    /\ \E value \in Datasets \cup NonDatasets :
         LET o == __init__(value)
         IN  /\ given' = value
             /\ constructed' = (o.err = "none")
             /\ dataset' = o.held
             /\ pre' = dataset
             /\ op' = Op("__init__", "-", "-", NoneV, "-", <<>>)
             /\ err' = o.err
             /\ ret' = o.ret
             /\ mid' = o.held

\* A method call ends with outcome o.
Return(o, call) ==
    /\ pre' = dataset
    /\ op' = call
    /\ err' = o.err
    /\ ret' = o.ret
    /\ dataset' = o.held
    /\ mid' = o.held
    /\ UNCHANGED <<constructed, given>>

Hash ==
    /\ Idle
    /\ constructed
    /\ \E c \in SourceNames, h \in HashNames :
         Return(Instrumented(hash(dataset, c, h)), Op("hash", c, h, NoneV, "-", <<>>))

Uuid ==
    /\ Idle
    /\ constructed
    /\ \E u \in UuidNames, draws \in [1..Len(dataset.rows) -> UuidOutcomes] :
         Return(Instrumented(uuid(dataset, u, draws)), Op("uuid", "-", u, NoneV, "-", draws))

NormalizeText ==
    /\ Idle
    /\ constructed
    /\ \E c \in SourceNames, t \in NormalizedNames :
         Return(Instrumented(normalize_text(dataset, c, t)), Op("normalize_text", c, t, NoneV, "-", <<>>))

FilterRows ==
    /\ Idle
    /\ constructed
    /\ \E condition \in Conditions :
         Return(Instrumented(filter_rows(dataset, condition)),
                Op("filter_rows", "-", "-", NoneV, condition, <<>>))

RenameColumn ==
    /\ Idle
    /\ constructed
    /\ \E old \in SourceNames, new \in NewNames :
         Return(rename_column(dataset, old, new),
                Op("rename_column", old, new, NoneV, "-", <<>>))

DropColumn ==
    /\ Idle
    /\ constructed
    /\ \E c \in SourceNames :
         Return(drop_column(dataset, c), Op("drop_column", c, "-", NoneV, "-", <<>>))

AddConstantColumn ==
    /\ Idle
    /\ constructed
    /\ \E c \in ConstantNames, v \in Constants :
         Return(add_constant_column(dataset, c, v),
                Op("add_constant_column", "-", c, v, "-", <<>>))

ConvertColumnType ==
    /\ Idle
    /\ constructed
    /\ \E c \in SourceNames, new_type \in Types :
         Return(Instrumented(convert_column_type(dataset, c, new_type)),
                Op("convert_column_type", c, "-", NoneV, new_type, <<>>))

FillMissing ==
    /\ Idle
    /\ constructed
    /\ \E c \in SourceNames, v \in Constants :
         Return(Instrumented(fill_missing(dataset, c, v)), Op("fill_missing", c, "-", v, "-", <<>>))

ComputeSummary ==
    /\ Idle
    /\ constructed
    /\ \E c \in SourceNames :
         Return(Instrumented(compute_summary(dataset, c)), Op("compute_summary", c, "-", NoneV, "-", <<>>))

\* formatter(hash_column_name=h, uuid_column_name=u)
Call ==
    /\ Idle
    /\ constructed
    /\ \E h \in CallHashNames, u \in UuidNames,
          draws \in [1..Len(dataset.rows) -> UuidOutcomes] :
         LET o == Instrumented(__call__(dataset, h, u, draws))
         IN  /\ pre' = dataset
             /\ op' = Op("__call__", "document", h, NoneV, u, draws)
             /\ err' = o.err
             /\ ret' = o.ret
             /\ dataset' = o.held
             /\ mid' = o.mid
             /\ UNCHANGED <<constructed, given>>

\* The caller drops what the last call returned or raised.
Release ==
    /\ ~Idle
    /\ op' = NoCall
    /\ given' = NoObject
    /\ pre' = NoObject
    /\ err' = "none"
    /\ ret' = NoObject
    /\ mid' = NoObject
    /\ UNCHANGED <<constructed, dataset>>

Next ==
    \/ Release
    \/ Construct
    \/ Hash
    \/ Uuid
    \/ NormalizeText
    \/ FilterRows
    \/ RenameColumn
    \/ DropColumn
    \/ AddConstantColumn
    \/ ConvertColumnType
    \/ FillMissing
    \/ ComputeSummary
    \/ Call

Spec == Init /\ [][Next]_vars

---------------------------------------------------------------------------
\* Properties.

\* The operations that take the name of a source column; __call__ takes it
\* through its hash step, whose column is "document".
ColumnOps ==
    {"hash", "normalize_text", "rename_column", "drop_column",
     "convert_column_type", "fill_missing", "compute_summary", "__call__"}

\* The operations that return a new dataset.
TransformOps ==
    {"hash", "uuid", "normalize_text", "filter_rows", "rename_column",
     "drop_column", "add_constant_column", "convert_column_type", "fill_missing"}

\* The SHA-256 hex digest of the UTF-8 bytes of the string form of v.
DigestOf(v) == StrV(Sha256Hex(Utf8Encode(PyStr(v))))

\* A str of 36 characters.
IsUuidString(v) == v.t = "str" /\ Len(v.s) = UuidStrLen

\* Datasets a and b have the same rows, in the same order, on columns ks.
SameOn(a, b, ks) ==
    /\ Len(a.rows) = Len(b.rows)
    /\ \A i \in 1..Len(a.rows) : \A k \in ks : a.rows[i][k] = b.rows[i][k]

\* C1: a call of an operation that takes a source column, with a column that
\* is not in the held dataset, raises the missing-column ValueError, returns
\* nothing and leaves the held reference as it was.
C1_MissingColumn ==
    (op.name \in ColumnOps /\ op.col \notin pre.cols)
        => (err = ColumnError /\ ret = NoObject /\ dataset = pre)

C1_Witness ==
    /\ op.name = "hash"
    /\ op.col \notin pre.cols
    /\ pre.cols # {}
    /\ err = ColumnError

\* C2 (as the specification states it): a call that raises leaves the held
\* reference as it was before the call.
C2_NoPartialApplication ==
    (op.name # "-" /\ err # "none") => dataset = pre

\* C3 (as the specification states it): a successful apply with hash column H
\* and uuid column U returns the held dataset, which has H and U, the H value
\* of every row being the digest of the row's "document" and the U value a
\* 36-character string.
C3_ApplyOriginal ==
    (op.name = "__call__" /\ err = "none")
        => /\ ret = dataset
           /\ {op.tgt, op.aux} \subseteq ret.cols
           /\ Len(ret.rows) = Len(pre.rows)
           /\ \A i \in 1..Len(ret.rows) :
                /\ ret.rows[i][op.tgt] = DigestOf(pre.rows[i]["document"])
                /\ IsUuidString(ret.rows[i][op.aux])

\* C3 (amended): a successful apply runs hash, then uuid on the result of
\* hash, and returns the held dataset; it has H and U, every U value is a
\* 36-character string, and, when H and U differ, every H value is the digest
\* of the string form of the row's "document" before the call.  When H = U the
\* uuid step has overwritten the digests.
C3_Apply ==
    (op.name = "__call__" /\ err = "none")
        => /\ ret = dataset
           /\ IsValidDataset(ret)
           /\ mid.cols = pre.cols \cup {op.tgt}
           /\ SameOn(mid, pre, pre.cols \ {op.tgt})
           /\ \A i \in 1..Len(mid.rows) :
                mid.rows[i][op.tgt] = DigestOf(pre.rows[i]["document"])
           /\ ret.cols = mid.cols \cup {op.aux}
           /\ SameOn(ret, mid, mid.cols \ {op.aux})
           /\ \A i \in 1..Len(ret.rows) : IsUuidString(ret.rows[i][op.aux])
           /\ op.tgt # op.aux =>
                \A i \in 1..Len(ret.rows) :
                    ret.rows[i][op.tgt] = DigestOf(pre.rows[i]["document"])

C3_Witness ==
    /\ op.name = "__call__"
    /\ err = "none"
    /\ op.tgt # op.aux
    /\ Len(ret.rows) = MaxRows
    /\ ret.rows[1][op.tgt] # ret.rows[MaxRows][op.tgt]

\* C4: hash of a column C the dataset has, into a column H, returns a dataset
\* with the same rows in the same order and the column H, whose value at every
\* row is the SHA-256 hex digest of the UTF-8 bytes of the string form of the
\* row's C; two rows have equal H values exactly when the string forms of
\* their C values are equal.
C4_Hash ==
    (op.name = "hash" /\ op.col \in pre.cols /\ IsHashable(op.tgt))
        => /\ err = "none"
           /\ IsValidDataset(ret)
           /\ ret.cols = pre.cols \cup {op.tgt}
           /\ SameOn(ret, pre, pre.cols \ {op.tgt})
           /\ \A i \in 1..Len(ret.rows) :
                ret.rows[i][op.tgt] = DigestOf(pre.rows[i][op.col])
           /\ \A i, j \in 1..Len(ret.rows) :
                (ret.rows[i][op.tgt] = ret.rows[j][op.tgt])
                    <=> (PyStr(pre.rows[i][op.col]) = PyStr(pre.rows[j][op.col]))

C4_Witness ==
    /\ op.name = "hash"
    /\ err = "none"
    /\ Len(ret.rows) = MaxRows
    /\ \E i \in 1..Len(pre.rows) : pre.rows[i][op.col].t # "str"
    /\ ret.rows[1][op.tgt] # ret.rows[MaxRows][op.tgt]

\* C5 (as the specification states it): after a successful call of an
\* operation that returns a new dataset, the held reference is the dataset the
\* call returned.
C5_ReassignedOriginal ==
    (op.name \in TransformOps /\ err = "none") => dataset = ret

\* C5 (amended): only apply (__call__) reassigns the held reference, to the
\* result of each of its two steps; a call of hash, uuid, normalize_text,
\* filter_rows, rename_column, drop_column, add_constant_column,
\* convert_column_type or fill_missing leaves the held reference (and the
\* dataset it refers to) as it was and only returns the new dataset.
C5_Reassigned ==
    /\ op.name \in TransformOps => (dataset = pre /\ mid = pre)
    /\ (op.name = "__call__" /\ err = "none") => dataset = ret
    /\ (op.name = "__call__" /\ err # "none") => (dataset = mid /\ ret = NoObject)

C5_Witness ==
    /\ op.name = "hash"
    /\ err = "none"
    /\ ret # pre
    /\ dataset = pre

\* C6: constructing from a value that is no valid dataset raises TypeError and
\* no Formatter exists; a Formatter that exists holds one reference, to a
\* valid dataset (a sequence of rows that all have the dataset's columns).
C6_HeldDataset ==
    /\ (op.name = "__init__" /\ ~IsValidDataset(given))
           => (err = "TypeError" /\ ~constructed)
    /\ constructed => IsValidDataset(dataset)
    /\ ~constructed => dataset = NoObject

C6_Witness ==
    /\ op.name = "__init__"
    /\ given.kind = "list"
    /\ err = "TypeError"
    /\ ~constructed

\* C7: normalize_text is idempotent: normalizing the dataset a successful
\* normalize_text returned, with the same arguments, succeeds and returns that
\* same dataset.
C7_NormalizeIdempotent ==
    (op.name = "normalize_text" /\ err = "none")
        => LET again == normalize_text(ret, op.col, op.tgt)
           IN  again.err = "none" /\ again.ret = ret

C7_Witness ==
    /\ op.name = "normalize_text"
    /\ err = "none"
    /\ op.tgt = NoName
    /\ \E i \in 1..Len(pre.rows) : ret.rows[i][op.col] # pre.rows[i][op.col]

\* The rows of the held dataset at which the condition of the last call is
\* true.
Kept == {i \in 1..Len(pre.rows) : IsTrue(Condition(op.aux, pre.rows[i]))}

\* C8: a successful filter_rows returns exactly the rows at which the
\* condition is true, each once, in their order in the held dataset, with the
\* same columns and values.
C8_FilterRows ==
    (op.name = "filter_rows" /\ err = "none")
        => /\ ret.kind = "Dataset"
           /\ ret.cols = pre.cols
           /\ Len(ret.rows) = Cardinality(Kept)
           /\ \E f \in [1..Len(ret.rows) -> Kept] :
                /\ \A a, b \in 1..Len(ret.rows) : a < b => f[a] < f[b]
                /\ \A a \in 1..Len(ret.rows) : ret.rows[a] = pre.rows[f[a]]

C8_Witness ==
    /\ op.name = "filter_rows"
    /\ err = "none"
    /\ Len(ret.rows) = MaxRows
    /\ ret.rows[1] # ret.rows[MaxRows]
    /\ op.aux # "True"

\* C9: a successful rename_column(old, new) returns a dataset with the same
\* number of rows, in the same order, in which old is absent, new is present
\* with the values old had, and every other column is as it was.
C9_RenameColumn ==
    (op.name = "rename_column" /\ err = "none")
        => /\ IsValidDataset(ret)
           /\ op.col \notin ret.cols
           /\ op.tgt \in ret.cols
           /\ ret.cols = (pre.cols \ {op.col}) \cup {op.tgt}
           /\ SameOn(ret, pre, pre.cols \ {op.col})
           /\ \A i \in 1..Len(ret.rows) : ret.rows[i][op.tgt] = pre.rows[i][op.col]

C9_Witness ==
    /\ op.name = "rename_column"
    /\ err = "none"
    /\ Cardinality(pre.cols) > 1
    /\ Len(pre.rows) = MaxRows

\* C10: drop_column of a column the dataset has returns a dataset whose
\* columns are the others, with the same rows in the same order and the same
\* values in them.
C10_DropColumn ==
    (op.name = "drop_column" /\ op.col \in pre.cols)
        => /\ err = "none"
           /\ IsValidDataset(ret)
           /\ ret.cols = pre.cols \ {op.col}
           /\ SameOn(ret, pre, pre.cols \ {op.col})

C10_Witness ==
    /\ op.name = "drop_column"
    /\ err = "none"
    /\ Cardinality(pre.cols) > 1
    /\ Len(pre.rows) = MaxRows

\* C11: a successful fill_missing(C, v) on a column C the dataset has returns
\* a dataset with the same columns and the same rows in the same order, in
\* which every row whose C was None has C = v, every other row keeps its C,
\* and all other columns are as they were.
C11_FillMissing ==
    (op.name = "fill_missing" /\ op.col \in pre.cols /\ err = "none")
        => /\ IsValidDataset(ret)
           /\ ret.cols = pre.cols
           /\ SameOn(ret, pre, pre.cols \ {op.col})
           /\ \A i \in 1..Len(ret.rows) :
                /\ pre.rows[i][op.col] = NoneV => ret.rows[i][op.col] = op.val
                /\ pre.rows[i][op.col] # NoneV => ret.rows[i][op.col] = pre.rows[i][op.col]

C11_Witness ==
    /\ op.name = "fill_missing"
    /\ err = "none"
    /\ Cardinality(pre.cols) > 1
    /\ Len(pre.rows) = MaxRows
    /\ pre.rows[1][op.col] = NoneV
    /\ pre.rows[MaxRows][op.col] # NoneV
    /\ ret.rows[1][op.col] = op.val

\* A version-4 UUID in canonical form: 36 characters, hyphens after the 8th,
\* 12th, 16th and 20th hexadecimal digit, the version digit 4.
IsUuid4String(v) ==
    /\ v.t = "str"
    /\ Len(v.s) = UuidStrLen
    /\ \A i \in 1..Len(v.s) :
         IF i \in {9, 14, 19, 24} THEN v.s[i] = "-"
         ELSE IF i = 15 THEN v.s[i] = "4"
         ELSE v.s[i] \in {DigitChar(k) : k \in 0..9} \cup {"a", "b", "c", "d", "e", "f"}

\* C12 (as the specification states it): uuid never raises the missing-column
\* error, and a successful uuid(U) returns the same rows plus the column U of
\* 36-character version-4 UUID strings, no two rows having the same U value.
C12_UuidOriginal ==
    op.name = "uuid"
        => /\ err # ColumnError
           /\ err = "none" =>
                /\ ret.cols = pre.cols \cup {op.tgt}
                /\ SameOn(ret, pre, pre.cols \ {op.tgt})
                /\ \A i \in 1..Len(ret.rows) : IsUuid4String(ret.rows[i][op.tgt])
                /\ \A i, j \in 1..Len(ret.rows) :
                     i # j => ret.rows[i][op.tgt] # ret.rows[j][op.tgt]

\* C12 (amended): uuid never raises the missing-column error, and a
\* successful uuid(U) returns the same rows in the same order plus the column
\* U, whose value at every row is a 36-character version-4 UUID string, the
\* outcome of that row's own call of uuid4.  Two rows may draw the same value:
\* that they differ is likely, not guaranteed.
C12_Uuid ==
    op.name = "uuid"
        => /\ err # ColumnError
           /\ dataset = pre
           /\ err = "none" =>
                /\ IsValidDataset(ret)
                /\ ret.cols = pre.cols \cup {op.tgt}
                /\ SameOn(ret, pre, pre.cols \ {op.tgt})
                /\ \A i \in 1..Len(ret.rows) :
                     /\ IsUuid4String(ret.rows[i][op.tgt])
                     /\ ret.rows[i][op.tgt] = Uuid4Str(op.draws[i])

C12_Witness ==
    /\ op.name = "uuid"
    /\ err = "none"
    /\ Len(ret.rows) = MaxRows
    /\ ret.rows[1][op.tgt] # ret.rows[MaxRows][op.tgt]

\* C13: apply (__call__) takes the two target names only and hashes the
\* column "document": on a held dataset without that column it raises the
\* missing-column error whatever the names given, returns nothing, runs no
\* uuid step, and the held reference stays as it was.
C13_ApplyNeedsDocument ==
    (op.name = "__call__" /\ "document" \notin pre.cols)
        => /\ op.col = "document"
           /\ err = ColumnError
           /\ ret = NoObject
           /\ mid = pre
           /\ dataset = pre

C13_Witness ==
    /\ op.name = "__call__"
    /\ "document" \notin pre.cols
    /\ pre.cols # {}
    /\ IsHashable(op.tgt)
    /\ IsHashable(op.aux)
    /\ err = ColumnError
    /\ dataset = pre

====
